---------------------------- MODULE Spec2Model ----------------------------
(***************************************************************************)
(* A model of src/server.py: a threaded chat server.  One thread per       *)
(* accepted Client runs Client.handle; one thread runs                     *)
(* Server.accept_connections; the main thread runs Server.start and, on    *)
(* KeyboardInterrupt, Server.close_connections.  All of them share         *)
(* Server.clients (a dict), Server.is_running, and each Client's socket    *)
(* and chat flag, with no lock.  Every action below is one access to that  *)
(* shared state by one thread, together with the thread-local work (calls, *)
(* returns, branches, exception handling) that follows it up to the next   *)
(* access.                                                                 *)
(*                                                                         *)
(* Server.clients is modelled as CPython's insertion-ordered dict: an      *)
(* entries array in which a deleted key leaves a dummy slot, and a key     *)
(* iterator that remembers the size it started with (di_used), its         *)
(* position (di_pos) and how many keys it still expects (len).  A Client   *)
(* is inserted at most once, so the array never outgrows the first         *)
(* allocation (5 usable slots) as long as NClients <= 5, and is never      *)
(* compacted.                                                              *)
(*                                                                         *)
(* Two specifications: Spec is the whole program from Server.__init__ on,  *)
(* with MaxConns connections; SpecChat is the chat among NClients Clients  *)
(* that have already joined, while the server keeps running.               *)
(***************************************************************************)
EXTENDS Integers, Sequences, FiniteSets, TLC

\* Number of Clients there may be.
NClients == 3
\* Number of connections the acceptor may accept (one Client each).
MaxConns == 2
\* Number of chat lines the peers may send, all together, after their names.
MaxLines == 1
\* Number of peers that may go away.
MaxGone == 1
\* In a run in which the server is stopped: the number of chat lines sent and
\* peers gone, all together.
MaxStopEvents == 1

Clients == 1..NClients
\* The main thread (Server.start); client threads are named by their Client.
Main == 0
Threads == Clients \cup {Main}
\* sender=None of Server.broadcast, and "no Client" in a frame not in use.
None == NClients + 1
\* The key of a deleted dict slot.
Dummy == 0

(***************************************************************************)
(* Errors.  socket.error is OSError; e.args[0] is its errno.               *)
(***************************************************************************)
EPIPE == 32
EBADF == 9
ENOTCONN == 107
ECONNRESET == 104

OSError(n) == [cls |-> "OSError", errno |-> n]
RuntimeError == [cls |-> "RuntimeError", errno |-> 0]
KeyError == [cls |-> "KeyError", errno |-> 0]
AttributeError == [cls |-> "AttributeError", errno |-> 0]
NoErr == [cls |-> "none", errno |-> 0]
Ok == [cls |-> "ok", errno |-> 0]

(***************************************************************************)
(* Text.  A line is a sequence of characters.                              *)
(***************************************************************************)
Whitespace == {" ", "\t", "\n", "\r"}

RECURSIVE lstrip(_)
lstrip(s) ==
    IF s # <<>> /\ Head(s) \in Whitespace THEN lstrip(Tail(s)) ELSE s

RECURSIVE rstrip(_)
rstrip(s) ==
    IF s # <<>> /\ s[Len(s)] \in Whitespace
    THEN rstrip(SubSeq(s, 1, Len(s) - 1))
    ELSE s

\* str.strip()
strip(s) == rstrip(lstrip(s))

\* sub in s
Contains(sub, s) ==
    \E i \in 0..(Len(s) - Len(sub)) : SubSeq(s, i + 1, i + Len(sub)) = sub

QuitToken == <<":", "q", "u", "i", "t">>

\* message in ["", "\n"]
IsIgnored(message) == message \in {<<>>, <<"\n">>}

\* The branch Client.handler takes on a received line.
Dispatch(message) ==
    IF Contains(QuitToken, message) THEN "quit"
    ELSE IF IsIgnored(message) THEN "continue"
    ELSE "msg"

\* What a connected peer may type in the chat loop.
ChatLines ==
    { <<"\n">>,
      <<" ", " ">>,
      <<"\r", "\n">>,
      <<" ", "h", "i", " ", "\n">>,
      <<"a", ":", "q", "u", "i", "t", "\n">> }

\* What a connected peer may answer to the name prompt.
NameLines == { <<"A", "l", "\n">>, <<" ", "A", "l", "\r", "\n">> }

\* self.name before Client.join has assigned it.
NoName == <<"<unset>">>

(***************************************************************************)
(* Server.clients: the dict.                                               *)
(***************************************************************************)
Slot(c, n) == [k |-> c, v |-> n]
DummySlot == [k |-> Dummy, v |-> <<>>]

Keys(d) == {d[i].k : i \in 1..Len(d)} \ {Dummy}

\* len(d): ma_used
Used(d) == Cardinality({i \in 1..Len(d) : d[i].k # Dummy})

\* d[c] = n
DictSet(d, c, n) ==
    IF c \in Keys(d)
    THEN [i \in 1..Len(d) |-> IF d[i].k = c THEN Slot(c, n) ELSE d[i]]
    ELSE Append(d, Slot(c, n))

\* del d[c], for c a key of d
DictDel(d, c) ==
    [i \in 1..Len(d) |-> IF d[i].k = c THEN DummySlot ELSE d[i]]

\* The first live slot at or after pos, or 0.
NextLive(d, pos) ==
    LET live == {i \in pos..Len(d) : d[i].k # Dummy}
    IN IF live = {} THEN 0 ELSE CHOOSE i \in live : \A j \in live : i <= j

VARIABLES
    clients,      \* Server.clients
    is_running,   \* Server.is_running
    listener,     \* Server.server: "bound", "listening", "closed"
    sock,         \* Client.socket, server side: "none", "open", "shut", "closed"
    peer,         \* the remote end of it: "alive", "gone"
    chat,         \* Client.chat
    th,           \* each thread: where it is, its frames, its locals
    acc,          \* where the accept thread is
    conn,         \* the accept thread's client_socket
    hist          \* history: what has been done to each Client

vars == <<clients, is_running, listener, sock, peer, chat, th, acc, conn, hist>>

NoSnd == [to |-> None, kind |-> "none", framed |-> FALSE, ret |-> "none"]
NoBc == [kind |-> "none", sender |-> None, body |-> <<>>, ret |-> "none",
         snap |-> {}, done |-> {}]
NoIt == [pos |-> 0, used |-> 0, len |-> 0]
NoLv == [who |-> None, delete |-> FALSE, gone |-> FALSE, ret |-> "none"]

\* A thread that has not started.  pc: where it is; snd, bc, lv: its frames
\* of Client.send, Server.broadcast and Client.leave; it: its dict iterator;
\* inExcept: it is inside Client.handle's except clause; message: the line
\* Client.recv returned; name: self.name; exc: the exception it died of;
\* quit, readAfterQuit: it has read a line with ":quit", and read again.
Idle == [pc |-> "idle", snd |-> NoSnd, bc |-> NoBc, it |-> NoIt, lv |-> NoLv,
         inExcept |-> FALSE, message |-> <<>>, name |-> NoName, exc |-> NoErr,
         quit |-> FALSE, readAfterQuit |-> FALSE]

\* leaves: calls of leave on the Client; kills: calls of kill; dels: times
\* it was deleted from Server.clients; notice: its peer was sent "Closing
\* server..."; swept: close_connections called leave(delete=False) on it;
\* nread: the chat lines read from its peer; late: accept() returned its
\* connection when is_running was already cleared.
NoHist == [leaves |-> 0, kills |-> 0, dels |-> 0, notice |-> FALSE,
           swept |-> FALSE, nread |-> 0, late |-> FALSE]

\* Server.__init__ has run; nothing is listening yet.
Init ==
    /\ clients = <<>>
    /\ is_running = FALSE
    /\ listener = "bound"
    /\ sock = [c \in Clients |-> "none"]
    /\ peer = [c \in Clients |-> "alive"]
    /\ chat = [c \in Clients |-> FALSE]
    /\ th = [t \in Threads |->
                IF t = Main THEN [Idle EXCEPT !.pc = "m_listen"] ELSE Idle]
    /\ acc = "a_idle"
    /\ conn = None
    /\ hist = [c \in Clients |-> NoHist]

(***************************************************************************)
(* What the peers and the operator have done so far.                       *)
(***************************************************************************)
\* The chat lines read so far from the peers of the Clients of S.
RECURSIVE LinesRead(_)
LinesRead(S) ==
    IF S = {} THEN 0
    ELSE LET c == CHOOSE x \in S : TRUE
         IN hist[c].nread + LinesRead(S \ {c})

PeersGone == Cardinality({c \in Clients : peer[c] = "gone"})

Events == LinesRead(Clients) + PeersGone

\* The finally block of Server.start has begun.
Stopped == th[Main].pc \notin {"m_listen", "m_join"}

\* A peer may send one more chat line.
MayType == LinesRead(Clients) < MaxLines /\ (Stopped => Events < MaxStopEvents)

\* One more peer may go away.
MayGo == PeersGone < MaxGone /\ (Stopped => Events < MaxStopEvents)

(***************************************************************************)
(* Sockets.  What a call on Client.socket can do depends on what has been  *)
(* done to the socket on this side and on whether the peer is still there; *)
(* where the operating system decides, every outcome is possible.          *)
(***************************************************************************)
\* socket.send(raw)
SendOutcomes(c) ==
    CASE sock[c] = "closed" -> {OSError(EBADF)}
      [] sock[c] = "shut" -> {OSError(EPIPE)}
      [] sock[c] = "open" /\ peer[c] = "alive" -> {Ok}
      [] OTHER -> {Ok, OSError(EPIPE), OSError(ECONNRESET)}

\* socket.recv(n): a line of `lines` from a live peer, "" at end of stream.
RecvOutcomes(c, lines) ==
    CASE sock[c] = "closed" -> {[err |-> OSError(EBADF), data |-> <<>>]}
      [] sock[c] = "shut" -> {[err |-> Ok, data |-> <<>>]}
      [] sock[c] = "open" /\ peer[c] = "alive" ->
            {[err |-> Ok, data |-> l] : l \in lines}
      [] OTHER -> {[err |-> Ok, data |-> <<>>],
                   [err |-> OSError(ECONNRESET), data |-> <<>>]}

\* socket.shutdown(SHUT_RDWR)
ShutdownOutcomes(c) ==
    CASE sock[c] = "closed" -> {OSError(EBADF)}
      [] sock[c] = "open" /\ peer[c] = "alive" -> {Ok}
      [] OTHER -> {Ok, OSError(ENOTCONN)}

\* The errors Client.kill swallows: e.args[0] in [32, 107].
KillSwallows(e) == e.errno \in {EPIPE, ENOTCONN}

(***************************************************************************)
(* Thread-local control: calls, returns and exceptions, as functions of a  *)
(* thread's record s.                                                      *)
(***************************************************************************)
\* to.send(msg), to return to ret
CallSend(s, to, kind, ret) ==
    [s EXCEPT !.pc = "s_frame",
              !.snd = [to |-> to, kind |-> kind, framed |-> FALSE, ret |-> ret]]

\* self.parent.broadcast(message, sender), to return to ret
CallBroadcast(s, kind, sender, body, ret) ==
    [s EXCEPT !.pc = "b_iter",
              !.bc = [kind |-> kind, sender |-> sender, body |-> body,
                      ret |-> ret, snap |-> {}, done |-> {}]]

\* who.leave(delete, gone), to return to ret
CallLeave(s, who, delete, gone, ret) ==
    [s EXCEPT !.pc = "l_chat",
              !.lv = [who |-> who, delete |-> delete, gone |-> gone,
                      ret |-> ret]]

\* Exception e in thread t.  In a client thread it reaches Client.handle's
\* except clause, unless it was raised there: EPIPE runs
\* self.leave(gone=True) and returns, errno 9 returns, any other socket
\* error and any other exception leaves handle and ends the thread.  In the
\* main thread it leaves Server.start.
Raise(t, s, e) ==
    LET u == [s EXCEPT !.snd = NoSnd, !.bc = NoBc, !.it = NoIt, !.lv = NoLv,
                       !.message = <<>>]
    IN IF t \in Clients /\ ~s.inExcept /\ e.cls = "OSError" /\ e.errno = EPIPE
       THEN CallLeave([u EXCEPT !.inExcept = TRUE], t, TRUE, TRUE, "done")
       ELSE IF t \in Clients /\ ~s.inExcept /\ e.cls = "OSError"
               /\ e.errno = EBADF
       THEN [u EXCEPT !.pc = "done"]
       ELSE [u EXCEPT !.pc = "dead", !.exc = e]

\* Client.handler's branch on the line read: leave on ":quit", skip "" and
\* "\n", else Client.msg: strip the line, broadcast it with self as sender.
Handler(t, s) ==
    LET d == Dispatch(s.message)
        u == [s EXCEPT !.message = <<>>]
    IN CASE d = "quit" ->
               CallLeave([u EXCEPT !.quit = TRUE], t, TRUE, FALSE, "done")
         [] d = "continue" -> [u EXCEPT !.pc = "h_recv"]
         [] OTHER -> CallBroadcast(u, "chat", t, strip(s.message), "h_recv")

\* Thread t goes on at ret, up to its next access to shared state:
\*   j_name   Client.join: self.name = <line>.strip(), send the welcome
\*   j_bcast  Client.join: broadcast "... has joined"
\*   h_disp   Client.handler: branch on the line
\*   l_ret    Client.leave returns to its caller
\*   others   a place where the thread's next step is an access
Resume(t, s, ret) ==
    CASE ret = "j_name" ->
            CallSend([s EXCEPT !.name = strip(s.message), !.message = <<>>],
                     t, "welcome", "j_bcast")
      [] ret = "j_bcast" -> CallBroadcast(s, "joined", None, <<>>, "j_reg")
      [] ret = "h_disp" -> Handler(t, s)
      [] ret = "l_ret" -> [s EXCEPT !.pc = s.lv.ret, !.lv = NoLv]
      [] OTHER -> [s EXCEPT !.pc = ret]

(***************************************************************************)
(* Client.send, lines 17-26.                                               *)
(***************************************************************************)
\* `if not self.chat`: the framing is chosen from the flag as read here.
SendFrame(t) ==
    /\ th[t].pc = "s_frame"
    /\ th' = [th EXCEPT ![t].pc = "s_send",
                        ![t].snd.framed = chat[th[t].snd.to]]
    /\ UNCHANGED <<clients, is_running, listener, sock, peer, chat, acc, conn,
                   hist>>

\* self.socket.send(raw); send returns to its caller, or raises.
SendSock(t) ==
    LET s == th[t]
        to == s.snd.to
    IN /\ s.pc = "s_send"
       /\ \E o \in SendOutcomes(to) :
             IF o = Ok
             THEN /\ th' = [th EXCEPT ![t] =
                       Resume(t,
                              [s EXCEPT !.snd = NoSnd,
                                        !.bc.done = IF s.snd.ret = "b_next"
                                                    THEN @ \cup {to} ELSE @],
                              s.snd.ret)]
                  /\ hist' = IF s.snd.kind = "closing" /\ peer[to] = "alive"
                             THEN [hist EXCEPT ![to].notice = TRUE]
                             ELSE hist
             ELSE /\ th' = [th EXCEPT ![t] = Raise(t, s, o)]
                  /\ UNCHANGED hist
       /\ UNCHANGED <<clients, is_running, listener, sock, peer, chat, acc,
                      conn>>

(***************************************************************************)
(* Server.broadcast, lines 169-174.                                        *)
(***************************************************************************)
\* `for client in self.clients`: iter() takes the size of the dict.
BroadcastIter(t) ==
    /\ th[t].pc = "b_iter"
    /\ th' = [th EXCEPT ![t].pc = "b_next",
                        ![t].it = [pos |-> 1, used |-> Used(clients),
                                   len |-> Used(clients)],
                        ![t].bc.snap = Keys(clients)]
    /\ UNCHANGED <<clients, is_running, listener, sock, peer, chat, acc, conn,
                   hist>>

\* next() of a key iterator i over d: "size" and "keys" are the two
\* RuntimeErrors (dictionary changed size / keys changed during iteration),
\* "stop" is the end of the loop, "key" yields d[at].k.
IterNext(d, i) ==
    LET at == NextLive(d, i.pos)
    IN IF i.used # Used(d) THEN [r |-> "size", at |-> 0]
       ELSE IF at = 0 THEN [r |-> "stop", at |-> 0]
       ELSE IF i.len = 0 THEN [r |-> "keys", at |-> at]
       ELSE [r |-> "key", at |-> at]

\* One turn of the loop: next(), then `if client == sender: continue`, else
\* the call of client.send(message); at the end broadcast returns.
BroadcastNext(t) ==
    LET s == th[t]
        n == IterNext(clients, s.it)
        u == [s EXCEPT !.it.pos = n.at + 1, !.it.len = @ - 1]
    IN /\ s.pc = "b_next"
       /\ th' = [th EXCEPT ![t] =
                    CASE n.r \in {"size", "keys"} -> Raise(t, s, RuntimeError)
                      [] n.r = "stop" ->
                            Resume(t, [s EXCEPT !.bc = NoBc, !.it = NoIt],
                                   s.bc.ret)
                      [] OTHER ->
                            IF clients[n.at].k = s.bc.sender
                            THEN u
                            ELSE CallSend(u, clients[n.at].k, s.bc.kind,
                                          "b_next")]
       /\ UNCHANGED <<clients, is_running, listener, sock, peer, chat, acc,
                      conn, hist>>

(***************************************************************************)
(* Client.leave and Client.kill, lines 56-78.                              *)
(***************************************************************************)
\* LeaveChat without the assignment of line 58: the flag stays as it was.
LeaveChatKeepsFlag(t) ==
    LET s == th[t]
        who == s.lv.who
    IN /\ s.pc = "l_chat"
       /\ hist' = [hist EXCEPT ![who].leaves = @ + 1]
       /\ th' = [th EXCEPT ![t] =
                    IF s.lv.gone
                    THEN [s EXCEPT !.pc = "k_shutdown"]
                    ELSE CallSend(s, who, "bye", "k_shutdown")]
       /\ UNCHANGED <<clients, is_running, listener, sock, peer, chat, acc,
                      conn>>

\* self.chat = False, then `if not gone:` the call of self.send(farewell)
LeaveChat(t) ==
    LET s == th[t]
        who == s.lv.who
    IN /\ s.pc = "l_chat"
       /\ chat' = [chat EXCEPT ![who] = FALSE]
       /\ hist' = [hist EXCEPT ![who].leaves = @ + 1]
       /\ th' = [th EXCEPT ![t] =
                    IF s.lv.gone
                    THEN [s EXCEPT !.pc = "k_shutdown"]
                    ELSE CallSend(s, who, "bye", "k_shutdown")]
       /\ UNCHANGED <<clients, is_running, listener, sock, peer, acc, conn>>

\* After kill's try statement: with delete the next step is the del; without,
\* kill returns, and so does leave.
AfterTry(t, s) ==
    IF s.lv.delete THEN [s EXCEPT !.pc = "k_del"] ELSE Resume(t, s, "l_ret")

\* self.socket.shutdown(socket.SHUT_RDWR), inside kill's try: an error that
\* kill swallows skips self.socket.close().
KillShutdown(t) ==
    LET s == th[t]
        who == s.lv.who
    IN /\ s.pc = "k_shutdown"
       /\ hist' = [hist EXCEPT ![who].kills = @ + 1]
       /\ \E o \in ShutdownOutcomes(who) :
             IF o = Ok
             THEN /\ sock' = [sock EXCEPT ![who] = "shut"]
                  /\ th' = [th EXCEPT ![t].pc = "k_close"]
             ELSE /\ th' = [th EXCEPT ![t] =
                               IF KillSwallows(o)
                               THEN AfterTry(t, s)
                               ELSE Raise(t, s, o)]
                  /\ UNCHANGED sock
       /\ UNCHANGED <<clients, is_running, listener, peer, chat, acc, conn>>

\* self.socket.close()
KillClose(t) ==
    /\ th[t].pc = "k_close"
    /\ sock' = [sock EXCEPT ![th[t].lv.who] = "closed"]
    /\ th' = [th EXCEPT ![t] = AfterTry(t, th[t])]
    /\ UNCHANGED <<clients, is_running, listener, peer, chat, acc, conn, hist>>

\* `del self.parent.clients[self]`, then leave's `if delete:` formats
\* self.name and calls broadcast.
KillDelete(t) ==
    LET s == th[t]
        who == s.lv.who
    IN /\ s.pc = "k_del"
       /\ IF who \in Keys(clients)
          THEN /\ clients' = DictDel(clients, who)
               /\ hist' = [hist EXCEPT ![who].dels = @ + 1]
               /\ th' = [th EXCEPT ![t] =
                            IF th[who].name = NoName
                            THEN Raise(t, s, AttributeError)
                            ELSE CallBroadcast(s, "left", None, <<>>, "l_ret")]
          ELSE /\ th' = [th EXCEPT ![t] = Raise(t, s, KeyError)]
               /\ UNCHANGED <<clients, hist>>
       /\ UNCHANGED <<is_running, listener, sock, peer, chat, acc, conn>>

(***************************************************************************)
(* Client.recv, lines 28-33.                                               *)
(***************************************************************************)
\* raw = self.socket.recv(...): in Client.join the answer to the name
\* prompt, in Client.handler a chat line (when the peers send no more of
\* them, recv blocks).
Recv(c) ==
    LET s == th[c]
    IN /\ s.pc \in {"j_recv", "h_recv"}
       /\ \E r \in RecvOutcomes(c, IF s.pc = "j_recv" THEN NameLines
                                      ELSE IF MayType THEN ChatLines
                                      ELSE {}) :
             /\ th' = [th EXCEPT ![c] =
                          IF r.err = Ok
                          THEN [s EXCEPT !.message = r.data,
                                         !.pc = IF s.pc = "j_recv"
                                                THEN "j_rchat" ELSE "h_rchat",
                                         !.readAfterQuit = @ \/ s.quit]
                          ELSE Raise(c, s, r.err)]
             /\ hist' = IF r.err = Ok /\ s.pc = "h_recv" /\ r.data # <<>>
                        THEN [hist EXCEPT ![c].nread = @ + 1]
                        ELSE hist
       /\ UNCHANGED <<clients, is_running, listener, sock, peer, chat, acc,
                      conn>>

\* `if self.chat: self.send("")`, then recv returns the line to its caller.
RecvCursor(c) ==
    LET s == th[c]
        ret == IF s.pc = "j_rchat" THEN "j_name" ELSE "h_disp"
    IN /\ s.pc \in {"j_rchat", "h_rchat"}
       /\ th' = [th EXCEPT ![c] =
                    IF chat[c]
                    THEN CallSend(s, c, "cursor", ret)
                    ELSE Resume(c, s, ret)]
       /\ UNCHANGED <<clients, is_running, listener, sock, peer, chat, acc,
                      conn, hist>>

(***************************************************************************)
(* Client.join, line 54, and Client.handler, lines 83-84.                  *)
(***************************************************************************)
\* self.parent.clients[self] = self.name
JoinRegister(c) ==
    /\ th[c].pc = "j_reg"
    /\ clients' = DictSet(clients, c, th[c].name)
    /\ th' = [th EXCEPT ![c].pc = "h_chat"]
    /\ UNCHANGED <<is_running, listener, sock, peer, chat, acc, conn, hist>>

\* self.chat = True, then the call of self.send("")
HandlerChat(c) ==
    /\ th[c].pc = "h_chat"
    /\ chat' = [chat EXCEPT ![c] = TRUE]
    /\ th' = [th EXCEPT ![c] = CallSend(th[c], c, "cursor", "h_recv")]
    /\ UNCHANGED <<clients, is_running, listener, sock, peer, acc, conn, hist>>

(***************************************************************************)
(* Server.start, lines 129-143, and Server.close_connections, 176-180.     *)
(***************************************************************************)
\* self.server.listen(connections); self.is_running = True; the accept
\* thread is started (it finds is_running set and calls accept) and joined.
Start ==
    /\ th[Main].pc = "m_listen"
    /\ listener' = "listening"
    /\ is_running' = TRUE
    /\ acc' = "a_accept"
    /\ th' = [th EXCEPT ![Main].pc = "m_join"]
    /\ UNCHANGED <<clients, sock, peer, chat, conn, hist>>

\* KeyboardInterrupt during accept_thread.join(): the finally block clears
\* is_running and calls close_connections, which begins with
\* self.broadcast("Closing server...").
Interrupt ==
    /\ th[Main].pc = "m_join"
    /\ Events <= MaxStopEvents
    /\ is_running' = FALSE
    /\ th' = [th EXCEPT ![Main] =
                 CallBroadcast(th[Main], "closing", None, <<>>, "cc_iter")]
    /\ UNCHANGED <<clients, listener, sock, peer, chat, acc, conn, hist>>

\* `for client in self.clients` of close_connections: iter()
CloseIter ==
    /\ th[Main].pc = "cc_iter"
    /\ th' = [th EXCEPT ![Main].pc = "cc_next",
                        ![Main].it = [pos |-> 1, used |-> Used(clients),
                                      len |-> Used(clients)]]
    /\ UNCHANGED <<clients, is_running, listener, sock, peer, chat, acc, conn,
                   hist>>

\* next() of that iterator, then the call of client.leave(delete=False); at
\* the end close_connections and start return.
CloseNext ==
    LET s == th[Main]
        n == IterNext(clients, s.it)
        u == [s EXCEPT !.it.pos = n.at + 1, !.it.len = @ - 1]
    IN /\ s.pc = "cc_next"
       /\ th' = [th EXCEPT ![Main] =
                    CASE n.r \in {"size", "keys"} ->
                            Raise(Main, s, RuntimeError)
                      [] n.r = "stop" -> [s EXCEPT !.pc = "done", !.it = NoIt]
                      [] OTHER ->
                            CallLeave(u, clients[n.at].k, FALSE, FALSE,
                                      "cc_next")]
       /\ hist' = IF n.r = "key"
                  THEN [hist EXCEPT ![clients[n.at].k].swept = TRUE]
                  ELSE hist
       /\ UNCHANGED <<clients, is_running, listener, sock, peer, chat, acc,
                      conn>>

(***************************************************************************)
(* Server.accept_connections, lines 145-167, and Server.close, 182-185.    *)
(***************************************************************************)
\* accept() times out: `continue` to another accept while is_running, else
\* `break` and self.close().
AcceptTimeout ==
    /\ acc = "a_accept"
    /\ IF is_running
       THEN UNCHANGED <<acc, listener>>
       ELSE acc' = "a_done" /\ listener' = "closed"
    /\ UNCHANGED <<clients, is_running, sock, peer, chat, th, conn, hist>>

\* accept() returns a connection
AcceptConn ==
    /\ acc = "a_accept"
    /\ \E c \in Clients :
          /\ c <= MaxConns
          /\ sock[c] = "none"
          /\ \A d \in Clients : sock[d] = "none" => c <= d
          /\ sock' = [sock EXCEPT ![c] = "open"]
          /\ conn' = c
          /\ hist' = [hist EXCEPT ![c].late = ~is_running]
    /\ acc' = "a_check"
    /\ UNCHANGED <<clients, is_running, listener, peer, chat, th>>

\* AcceptCheck without the test of is_running after accept().
AcceptCheckNoTest ==
    /\ acc = "a_check"
    /\ acc' = "a_spawn"
    /\ UNCHANGED <<clients, is_running, listener, sock, peer, chat, th, conn,
                   hist>>

\* `if not self.is_running`: close the new connection, break, self.close()
AcceptCheck ==
    /\ acc = "a_check"
    /\ IF is_running
       THEN acc' = "a_spawn" /\ UNCHANGED <<sock, conn, listener>>
       ELSE /\ sock' = [sock EXCEPT ![conn] = "closed"]
            /\ conn' = None
            /\ acc' = "a_done"
            /\ listener' = "closed"
    /\ UNCHANGED <<clients, is_running, peer, chat, th, hist>>

\* AcceptSpawn with the Client put into Server.clients as soon as it is
\* constructed, before it has a name.
AcceptSpawnRegisters ==
    /\ acc = "a_spawn"
    /\ chat' = [chat EXCEPT ![conn] = FALSE]
    /\ clients' = DictSet(clients, conn, NoName)
    /\ th' = [th EXCEPT ![conn] = CallSend(Idle, conn, "prompt", "j_recv")]
    /\ conn' = None
    /\ IF is_running
       THEN acc' = "a_accept" /\ UNCHANGED listener
       ELSE acc' = "a_done" /\ listener' = "closed"
    /\ UNCHANGED <<is_running, sock, peer, hist>>

\* client = Client(...); Thread(target=client.handle).start(): the thread
\* begins Client.join with the call of self.send("Enter your name\n> ").
\* Then `while self.is_running` and the next accept.
AcceptSpawn ==
    /\ acc = "a_spawn"
    /\ chat' = [chat EXCEPT ![conn] = FALSE]
    /\ th' = [th EXCEPT ![conn] = CallSend(Idle, conn, "prompt", "j_recv")]
    /\ conn' = None
    /\ IF is_running
       THEN acc' = "a_accept" /\ UNCHANGED listener
       ELSE acc' = "a_done" /\ listener' = "closed"
    /\ UNCHANGED <<clients, is_running, sock, peer, hist>>

(***************************************************************************)
(* The remote end of a connection goes away.                               *)
(***************************************************************************)
PeerClose(c) ==
    /\ sock[c] # "none"
    /\ peer[c] = "alive"
    /\ MayGo
    /\ peer' = [peer EXCEPT ![c] = "gone"]
    /\ UNCHANGED <<clients, is_running, listener, sock, chat, th, acc, conn,
                   hist>>

Next ==
    \/ Start
    \/ Interrupt
    \/ CloseIter
    \/ CloseNext
    \/ AcceptTimeout
    \/ AcceptConn
    \/ AcceptCheck
    \/ AcceptSpawn
    \/ \E c \in Clients : PeerClose(c)
    \/ \E c \in Clients : Recv(c)
    \/ \E c \in Clients : RecvCursor(c)
    \/ \E c \in Clients : JoinRegister(c)
    \/ \E c \in Clients : HandlerChat(c)
    \/ \E t \in Threads : SendFrame(t)
    \/ \E t \in Threads : SendSock(t)
    \/ \E t \in Threads : BroadcastIter(t)
    \/ \E t \in Threads : BroadcastNext(t)
    \/ \E t \in Threads : LeaveChat(t)
    \/ \E t \in Threads : KillShutdown(t)
    \/ \E t \in Threads : KillClose(t)
    \/ \E t \in Threads : KillDelete(t)

Spec == Init /\ [][Next]_vars

(***************************************************************************)
(* The chat among NClients Clients that have joined one after the other:   *)
(* each has given the name "Al", is registered, has set its chat flag and  *)
(* waits in Client.handler for a line.  The server keeps running.          *)
(* With NClients = MaxConns this is a state Spec reaches.                  *)
(***************************************************************************)
InitChat ==
    /\ clients = [i \in 1..NClients |-> Slot(i, <<"A", "l">>)]
    /\ is_running = TRUE
    /\ listener = "listening"
    /\ sock = [c \in Clients |-> "open"]
    /\ peer = [c \in Clients |-> "alive"]
    /\ chat = [c \in Clients |-> TRUE]
    /\ th = [t \in Threads |->
                IF t = Main THEN [Idle EXCEPT !.pc = "m_join"]
                ELSE [Idle EXCEPT !.pc = "h_recv", !.name = <<"A", "l">>]]
    /\ acc = "a_accept"
    /\ conn = None
    /\ hist = [c \in Clients |-> NoHist]

NextChat ==
    \/ \E c \in Clients : PeerClose(c)
    \/ \E c \in Clients : Recv(c)
    \/ \E c \in Clients : RecvCursor(c)
    \/ \E t \in Clients : SendFrame(t)
    \/ \E t \in Clients : SendSock(t)
    \/ \E t \in Clients : BroadcastIter(t)
    \/ \E t \in Clients : BroadcastNext(t)
    \/ \E t \in Clients : LeaveChat(t)
    \/ \E t \in Clients : KillShutdown(t)
    \/ \E t \in Clients : KillClose(t)
    \/ \E t \in Clients : KillDelete(t)

SpecChat == InitChat /\ [][NextChat]_vars


(***************************************************************************)
(* Where a client thread is.                                               *)
(***************************************************************************)
\* Client.handle has returned (handle's `return`, or the end of handler
\* after `break`), or an exception has left it.
Exited(c) == th[c].pc \in {"done", "dead"}

\* The thread is in Client.join: line 54 has not been executed.
InJoin(c) ==
    \/ th[c].pc \in {"j_recv", "j_rchat", "j_reg"}
    \/ th[c].snd.kind \in {"prompt", "welcome"}
    \/ th[c].snd.ret = "j_name"
    \/ th[c].bc.kind = "joined"

\* Client.join has returned and the thread is in Client.handler's loop (or in
\* the recv, send, msg or broadcast called from it); it has called no leave
\* and no exception has reached Client.handle.
InHandler(c) ==
    /\ th[c].pc \notin {"idle", "done", "dead"}
    /\ ~InJoin(c)
    /\ th[c].lv = NoLv
    /\ ~th[c].inExcept

(***************************************************************************)
(* The registry.                                                           *)
(***************************************************************************)
\* C1: a Client is a key of Server.clients if and only if it has completed
\* the naming phase and has not left.  Only if: a key has its name stored,
\* is past Client.join, and its handling routine has not exited (a leave that
\* is under way is allowed its entry until kill deletes it).  If: a Client in
\* the chat loop on which no leave has been called is a key.  No Client is
\* the key of two entries.
C1_RegisteredIffJoinedAndNotLeft ==
    /\ \A c \in Clients :
          /\ c \in Keys(clients) =>
                th[c].name # NoName /\ ~InJoin(c) /\ ~Exited(c)
          /\ (InHandler(c) /\ hist[c].leaves = 0) => c \in Keys(clients)
    /\ \A i, j \in 1..Len(clients) :
          (i # j /\ clients[i].k # Dummy) => clients[i].k # clients[j].k

\* C2: a Client that is a key of Server.clients is past Client.join: its
\* name line has been received and stored as self.name, and that name is the
\* value of its entry.
C2_RegisteredOnlyAfterNaming ==
    \A i \in 1..Len(clients) :
        clients[i].k # Dummy =>
            LET c == clients[i].k
            IN /\ th[c].name # NoName
               /\ clients[i].v = th[c].name
               /\ ~InJoin(c)
               /\ th[c].pc # "idle"

\* One Client is registered under the name its peer typed while another is
\* still in Client.join, past the prompt.
C2_Witness ==
    \E c, d \in Clients :
        /\ c \in Keys(clients)
        /\ th[c].name = <<"A", "l">>
        /\ d \notin Keys(clients)
        /\ th[d].pc = "j_reg"

(***************************************************************************)
(* Server.broadcast.  bc.snap is the set of keys when the loop took its    *)
(* iterator, bc.done the Clients whose send has returned.                  *)
(***************************************************************************)
\* Thread t's call of broadcast ends in this step: it returns, or an
\* exception leaves it.
BroadcastEnds(t) == th[t].bc.kind # "none" /\ th'[t].bc.kind = "none"

\* The Clients thread t's broadcast owes the message: registered when the
\* loop began, not the excluded sender, still registered, and their
\* connection intact (socket open on both sides).
Recipients(t) ==
    {c \in th[t].bc.snap \ {th[t].bc.sender} :
        c \in Keys(clients) /\ sock[c] = "open" /\ peer[c] = "alive"}

\* C3: when the broadcast of a chat message sent by a registered Client
\* ends, the sender has not been sent it and the other registered Clients
\* have.
C3_ChatReachesOthersNotSender ==
    [][\A t \in Clients :
          (BroadcastEnds(t) /\ th[t].bc.kind = "chat" /\ t \in th[t].bc.snap)
              => /\ t \notin th[t].bc.done
                 /\ Recipients(t) \subseteq th[t].bc.done]_vars

\* C4: when a broadcast in which no send has failed ends, every Client
\* registered when it began iterating, other than the excluded sender, has
\* been sent the message, whatever joined or left meanwhile.
C4_SnapshotDelivered ==
    [][\A t \in Threads :
          (BroadcastEnds(t) /\ th[t].pc = "b_next")
              => Recipients(t) \subseteq th[t].bc.done]_vars

\* C5: when the send to one recipient fails inside a broadcast, which ends
\* the broadcast, every other recipient has been sent the message.
C5_FailedSendSparesOthers ==
    [][\A t \in Threads :
          (BroadcastEnds(t) /\ th[t].pc = "s_send")
              => (Recipients(t) \ {th[t].snd.to}) \subseteq th[t].bc.done]_vars

\* Thread t holds an iterator over Server.clients: it is in the loop of
\* Server.broadcast or of Server.close_connections.
Iterating(t) == th[t].it # NoIt

\* C6: no step adds or removes a key of Server.clients while a thread is in
\* the middle of iterating it.
C6_NoMutationDuringIteration ==
    [][Keys(clients') # Keys(clients) => \A t \in Threads : ~Iterating(t)]_vars

(***************************************************************************)
(* Joining, stopping, quitting, blank lines.                               *)
(***************************************************************************)
\* Client c's connection has been accepted and its thread started.
Accepted(c) == th[c].pc # "idle"

\* Every connection the acceptor may accept has been accepted, every peer
\* has typed a name, every Client.join is over (it has returned, or an
\* exception has left it), and nothing else has happened: no peer has typed
\* a chat line or gone away, the server has not been stopped.
AllJoinsOver ==
    /\ \A c \in Clients :
          c <= MaxConns =>
              Accepted(c) /\ ~InJoin(c) /\ th[c].name = <<"A", "l">>
    /\ Events = 0
    /\ ~Stopped

\* C7: once the Clients that joined concurrently are all through
\* Client.join, each of them is a key of Server.clients, of one entry.
C7_ConcurrentJoinsAllRegistered ==
    AllJoinsOver =>
        \A c \in Clients :
            c <= MaxConns =>
                Cardinality({i \in 1..Len(clients) : clients[i].k = c}) = 1

\* Server.start has ended (close_connections has returned, or an exception
\* has left it) and so has the accept thread.
ShutdownOver == th[Main].pc \in {"done", "dead"} /\ acc = "a_done"

\* C8: after the server was stopped the listening socket is closed, and
\* every Client has been sent "Closing server..." and has its socket
\* closed.  A Client's thread is started only for a connection accepted
\* while is_running was set, so each Client was connected at the stop as long
\* as no peer has gone away or typed anything.
C8_StopNotifiesAndClosesAll ==
    (ShutdownOver /\ Events = 0) =>
        /\ listener = "closed"
        /\ \A c \in Clients :
              Accepted(c) => hist[c].notice /\ sock[c] = "closed"

\* C9: a Client whose handler has read a line with ":quit" and whose
\* handling routine has exited has been through leave once, deleted from
\* Server.clients once and through kill once, and has its socket closed; and
\* no thread reads again after it has read ":quit".
C9_QuitClosesExactlyOnce ==
    \A c \in Clients :
        /\ ~th[c].readAfterQuit
        /\ (th[c].quit /\ Exited(c)) =>
              /\ hist[c].leaves = 1
              /\ hist[c].dels = 1
              /\ hist[c].kills = 1
              /\ c \notin Keys(clients)
              /\ sock[c] = "closed"

\* C10: a line that is empty or only whitespace starts no broadcast: the
\* body of a chat broadcast, which Client.msg strips, is never empty.
C10_BlankLineNoBroadcast ==
    \A c \in Clients : th[c].bc.kind = "chat" => th[c].bc.body # <<>>

(***************************************************************************)
(* Errors and the end of a session.                                        *)
(***************************************************************************)
\* Client.handle has been left by a socket error that is neither of the two
\* it handles (EPIPE, errno 9).
DiedOfSocketError(c) ==
    /\ th[c].pc = "dead"
    /\ th[c].exc.cls = "OSError"
    /\ th[c].exc.errno \notin {EPIPE, EBADF}

\* C11: a Client whose handling routine has ended on an unexpected socket
\* error is not a key of Server.clients.
C11_SocketErrorExitDeregisters ==
    \A c \in Clients : DiedOfSocketError(c) => c \notin Keys(clients)

\* Thread t is at socket.send on the socket of another Client (inside a
\* broadcast).
SendingToOther(t) == th[t].pc = "s_send" /\ th[t].snd.to # t

\* C12: a failure of another Client's socket does not end a Client's own
\* session: a step from a send on another Client's socket never takes the
\* sending Client's thread into leave or out of Client.handle.
C12_OthersFailureSparesSender ==
    [][\A t \in Clients :
          SendingToOther(t) => th'[t].pc \notin {"l_chat", "done", "dead"}]_vars

\* Thread c is at a read or a write on its own Client's socket:
\* self.socket.recv in Client.recv, or self.socket.send in a send on self.
AtOwnSocket(c) ==
    \/ th[c].pc \in {"j_recv", "h_recv"}
    \/ th[c].pc = "s_send" /\ th[c].snd.to = c

\* C13: an error raised by a read or write on a Client's own socket never
\* leaves Client.handle: no step from such a read or write ends the thread
\* with an exception.
C13_DisconnectRecoveredLocally ==
    [][\A c \in Clients : AtOwnSocket(c) => th'[c].pc # "dead"]_vars

\* C14: a Client whose handling routine has exited, by return or by
\* exception, has had its socket closed.
C14_ExitClosesConnection ==
    \A c \in Clients : Exited(c) => sock[c] = "closed"

\* Thread t is at `del self.parent.clients[self]` for a Client that is not a
\* key of Server.clients.
DeletingAbsent(t) == th[t].pc = "k_del" /\ th[t].lv.who \notin Keys(clients)

\* C15: deleting a Client that is not registered is a no-op: the step that
\* thread t takes from there raises nothing and leaves Server.clients as it
\* is.
C15_DeregisterAbsentIsNoOp ==
    [][\A t \in Threads :
          (DeletingAbsent(t) /\ th'[t] # th[t])
              => (th'[t].pc # "dead" /\ clients' = clients)]_vars

\* Thread c, in its own leave with delete, has shut its socket down
\* (socket.shutdown has returned) and has not yet closed it.
OwnSocketShut(c) ==
    /\ th[c].pc = "k_close"
    /\ th[c].lv.who = c
    /\ th[c].lv.delete

\* C16: a leave that deregisters removes the Client's entry before it tears
\* the socket down: a Client whose own leave has shut its socket down is no
\* longer a key of Server.clients.
C16_DeregisteredBeforeTeardown ==
    \A c \in Clients : OwnSocketShut(c) => c \notin Keys(clients)

\* close_connections has dropped Client c: its call of c.leave(delete=False)
\* has shut c's socket down, or has returned.  (When the main thread has died
\* of a socket error the call it died in had not got that far.)
Dropped(c) ==
    /\ hist[c].swept
    /\ th[Main].lv.who = c => th[Main].pc = "k_close"
    /\ ~(th[Main].pc = "dead" /\ th[Main].exc.cls = "OSError")

\* C17: no broadcast of "<name> has left the chat" is started for a Client
\* that close_connections has dropped.
C17_SweptNeverAnnounced ==
    [][\A c \in Clients :
          (th[c].bc.kind # "left" /\ th'[c].bc.kind = "left")
              => ~Dropped(c)]_vars

(***************************************************************************)
(* The acceptor during shutdown.                                           *)
(***************************************************************************)
\* C18: when the test after accept() finds is_running cleared, the new
\* connection is closed and no thread is started; and for a connection that
\* accept() returned after is_running was cleared no Client thread is ever
\* started, and the connection is closed as soon as the test has run.
C18_LateAcceptNeverServed ==
    /\ [](\A c \in Clients :
            hist[c].late =>
                (th[c].pc = "idle" /\ (conn # c => sock[c] = "closed")))
    /\ [][(acc = "a_check" /\ acc' # "a_check" /\ ~is_running)
             => (sock'[conn] = "closed" /\ th' = th)]_vars

\* A connection accepted after is_running was cleared has been closed by the
\* acceptor, which has then closed the listening socket.
C18_Witness ==
    \E c \in Clients :
        /\ hist[c].late
        /\ sock[c] = "closed"
        /\ acc = "a_done"
        /\ listener = "closed"

(***************************************************************************)
(* The chat flag.                                                          *)
(***************************************************************************)
\* C19: a session becomes chatting only from naming and never again once it
\* has begun to leave: a step that sets a Client's chat flag finds the Client
\* named and registered, with no leave begun on it.
C19_NoChattingAfterLeaving ==
    [][\A c \in Clients :
          (~chat[c] /\ chat'[c])
              => /\ th[c].name # NoName
                 /\ c \in Keys(clients)
                 /\ hist[c].leaves = 0]_vars

(***************************************************************************)
(* C20: the chatting flag implies registration.                            *)
(***************************************************************************)
\* Client.send reads the recipient's flag (line 21) and so chooses the chat
\* framing for it.
FramesForChat(t) ==
    /\ th[t].pc = "s_frame"
    /\ th'[t].pc = "s_send"
    /\ th'[t].snd.framed

=============================================================================
